---- MODULE Spec2Model ----
(***************************************************************************)
(* A model of asv/environment.py: environment identity (get_env_name,      *)
(* hashname, _path), the install lifecycle of Environment.install_project  *)
(* with its persisted install status and its build cache,                  *)
(* Environment.create, match_rule, iter_requirement_matrix and             *)
(* _interpolate_and_run_commands.                                          *)
(*                                                                         *)
(* Strings that the code concatenates or sorts are sequences of code       *)
(* points (97 is "a", 45 is "-", ...); strings that the code only compares *)
(* or stores are TLA+ strings.  Python's None is the string "None" where   *)
(* the other values are strings, and a record field where they are not.    *)
(***************************************************************************)
EXTENDS Integers, Sequences, FiniteSets, TLC

None == "None"

Range(s) == {s[i] : i \in 1..Len(s)}

(***************************************************************************)
(* Environment identity.                                                   *)
(***************************************************************************)

\* Python's ordering of unicode strings: lexicographic by code point.
LexLess(s, t) ==
    \E i \in 1..(Len(s) + 1) :
        /\ i <= Len(t)
        /\ \A j \in 1..(i - 1) : s[j] = t[j]
        /\ (i = Len(s) + 1 \/ s[i] < t[i])

\* Python's ordering of the (key, val) tuples of a requirement list
ItemLess(x, y) == LexLess(x[1], y[1]) \/ (x[1] = y[1] /\ LexLess(x[2], y[2]))

RemoveAt(s, i) == SubSeq(s, 1, i - 1) \o SubSeq(s, i + 1, Len(s))

\* reqs.sort(): the items in ascending order.  requirements is a dict, given
\* as the sequence of its (key, val) items in iteration order; its keys are
\* distinct.
RECURSIVE SortItems(_)
SortItems(items) ==
    IF items = <<>> THEN <<>>
    ELSE LET i == CHOOSE k \in 1..Len(items) :
                      \A j \in 1..Len(items) : j = k \/ ItemLess(items[k], items[j])
         IN  <<items[i]>> \o SortItems(RemoveAt(items, i))

\* '-'.join(name)
RECURSIVE JoinDash(_)
JoinDash(tokens) ==
    IF tokens = <<>> THEN <<>>
    ELSE IF Len(tokens) = 1 THEN tokens[1]
    ELSE tokens[1] \o <<45>> \o JoinDash(Tail(tokens))

\* util.sanitize_filename: every character outside the safe set ("/", 47) is
\* replaced by the fixed substitute "_" (95).
sanitize_filename(s) == [i \in 1..Len(s) |-> IF s[i] = 47 THEN 95 ELSE s[i]]

\* the tokens of the sorted requirements: key + val if val is truthy, else key
RECURSIVE ReqTokens(_)
ReqTokens(reqs) ==
    IF reqs = <<>> THEN <<>>
    ELSE LET key == Head(reqs)[1]
             val == Head(reqs)[2]
         IN  <<IF val # <<>> THEN key \o val ELSE key>> \o ReqTokens(Tail(reqs))

\* (a variant that serialises the requirements in iteration order)
get_env_name_unsorted(tool_name, python, requirements) ==
    LET name0 == IF tool_name # <<>> THEN <<tool_name>> ELSE <<>>
        name1 == Append(name0, <<112, 121>> \o python)
    IN  sanitize_filename(JoinDash(name1 \o ReqTokens(requirements)))

get_env_name(tool_name, python, requirements) ==
    LET name0 == IF tool_name # <<>> THEN <<tool_name>> ELSE <<>>
        name1 == Append(name0, <<112, 121>> \o python)
        reqs  == SortItems(requirements)
    IN  sanitize_filename(JoinDash(name1 \o ReqTokens(reqs)))

\* hashlib.md5(name).hexdigest(): a digest is a function of the name alone;
\* it is modelled collision-free, which is the best case for disjointness.
hashname(name) == <<"md5", name>>

\* os.path.abspath(os.path.join(self._env_dir, self.hashname))
EnvPath(env_dir, name) == <<env_dir, hashname(name)>>

(***************************************************************************)
(* The environments of the install lifecycle: two environments under one   *)
(* environment root that differ in one requirement value only.             *)
(***************************************************************************)

Envs == {"E1", "E2"}

\* Environment objects: E1b is a second object of the identity of E1 (as
\* get_environments makes when it is asked for the same environment again).
Objs == {"E1", "E1b", "E2"}

Revs == {"R1", "R2"}

conf_env_dir == "env"

\* tool "v", python "3", requirements {"a": "1"} and {"a": "2"}
Identity(e) ==
    [tool_name |-> <<118>>, python |-> <<51>>,
     requirements |-> IF e = "E2" THEN << <<<<97>>, <<50>>>> >> ELSE << <<<<97>>, <<49>>>> >>]

name(e) == get_env_name(Identity(e).tool_name, Identity(e).python,
                        Identity(e).requirements)

\* self._path
PathOf(e) == EnvPath(conf_env_dir, name(e))

Paths == {PathOf(e) : e \in Envs}

(***************************************************************************)
(* Configuration (the fields Environment.__init__ copies from conf).  A    *)
(* command setting is None (the default commands apply) or a list.         *)
(***************************************************************************)

DefaultCmd == [none |-> TRUE, list |-> <<>>]

ConfA ==
    [repo_subdir |-> "", install_timeout |-> 600, project |-> "proj",
     build_command |-> DefaultCmd, install_command |-> DefaultCmd,
     uninstall_command |-> DefaultCmd]

\* ConfA with another build command
ConfB == [ConfA EXCEPT !.build_command = [none |-> FALSE, list |-> <<"make wheel">>]]

\* ConfA with another install timeout
ConfC == [ConfA EXCEPT !.install_timeout = 1200]

Confs == {ConfA, ConfB, ConfC}

\* conf.build_cache_size, the bound on the number of cache entries
CacheSizes == {1, 2}

UninstallCmds(c) ==
    IF c.uninstall_command.none
    THEN <<"return-code=any python -mpip uninstall -y {project}">>
    ELSE c.uninstall_command.list

BuildCmds(c) ==
    IF c.build_command.none
    THEN <<"python setup.py build",
           "PIP_NO_BUILD_ISOLATION=false python -mpip wheel --no-deps --no-index -w {build_cache_dir} {build_dir}">>
    ELSE c.build_command.list

InstallCmds(c) ==
    IF c.install_command.none
    THEN <<"python -mpip install {wheel_file}">>
    ELSE c.install_command.list

(***************************************************************************)
(* State.                                                                  *)
(***************************************************************************)
VARIABLES
    conf,        \* conf[e]: the configuration fields of Environment object e
    status,      \* status[p]: the file asv-install-status.json under path p
    cache,       \* cache[root]: the build cache rooted at root
    cache_size,  \* conf.build_cache_size
    env_vars,    \* env_vars[e]: ASV_COMMIT, ASV_BUILD_DIR, ASV_BUILD_CACHE_DIR
    pc,          \* pc[e]: where install_project of e stands
    arg,         \* arg[e]: commit_hash of the current or latest install_project
    ncalls,      \* ncalls[e]: install_project calls made on e
    res,         \* res[e]: outcome of the current or latest install_project
    ran,         \* ran[e]: what the current or latest install_project has done
    prev,        \* prev[e]: arg, res and ran of the call before it
    env_dir_exists, \* the directory conf.env_dir exists
    path_exists, \* path_exists[p]: the directory p exists
    info,        \* info[p]: the file asv-env-info.json under path p
    is_setup,    \* is_setup[o]: self._is_setup of Environment object o
    cpc,         \* cpc[o]: where create of o stands
    ccalls,      \* ccalls[o]: create calls made on o
    cres,        \* cres[o]: outcome of the current or latest create
    cran,        \* cran[o]: what the current or latest create has done
    cprev,       \* cprev[o]: cres and cran of the call before it
    life,        \* life[r]: the cache operations made on revision r so far
    fresh,       \* fresh[r]: no other entry was created since r was finalized
    was_valid,   \* was_valid[r]: r has been finalized at some time
    id_a, id_b,  \* two (tool_name, python, requirements) triples
    made,        \* the paths of the environments made of them
    m_in,        \* the arguments of iter_requirement_matrix, and what
                 \* get_environment_class makes of each python
    m_pc,        \* where iter_requirement_matrix stands
    m_py,        \* the index of python in pythons
    m_comb,      \* the index of combination in all_combinations
    m_inc,       \* the index of include in conf.include
    env_classes, \* env_classes of get_env_type
    empty_matrix, \* empty_matrix of the python at hand
    lookups,     \* the calls of get_environment_class made, by python
    out,         \* what has been yielded, and by which statement
    mr_target, mr_rule, \* the arguments of match_rule
    mr_result,   \* what it returned
    ci_in,       \* a command list, the variables of the environment and the
                 \* build cache directory it is interpolated with
    ci_pc,       \* where _interpolate_and_run_commands stands
    ci_list,     \* interpolated
    ci_exec      \* the commands run so far

installVars == <<conf, env_vars, pc, arg, ncalls, res, ran, prev>>

storeVars == <<status, cache, cache_size>>

createVars == <<env_dir_exists, path_exists, info, is_setup, cpc, ccalls, cres, cran, cprev>>

cacheOpVars == <<life, fresh, was_valid>>

identityVars == <<id_a, id_b, made>>

lifecycleVars == <<installVars, storeVars, createVars, cacheOpVars, identityVars>>

matrixVars == <<m_in, m_pc, m_py, m_comb, m_inc, env_classes, empty_matrix, lookups, out>>

matchVars == <<mr_target, mr_rule, mr_result>>

commandVars == <<ci_in, ci_pc, ci_list, ci_exec>>

expansionVars == <<matrixVars, matchVars, commandVars>>

vars == <<lifecycleVars, expansionVars>>

MaxCalls == 3

(***************************************************************************)
(* The persisted install status.                                           *)
(***************************************************************************)

NoFile == [exists |-> FALSE, commit_hash |-> None, install_checksum |-> <<>>]

_get_install_checksum(c) ==
    <<c.repo_subdir, c.install_timeout, c.project,
      c.build_command, c.install_command, c.uninstall_command>>

\* (a variant that does not compare the checksum)
_get_installed_commit_hash_unchecked(c, data) ==
    IF ~data.exists THEN None ELSE data.commit_hash

\* data = {} when there is no file; data.get('install_checksum') is then None,
\* which differs from every checksum.
_get_installed_commit_hash(c, data) ==
    IF ~data.exists THEN None
    ELSE IF data.install_checksum # _get_install_checksum(c) THEN None
    ELSE data.commit_hash

\* (a variant that persists the revision without the checksum)
_set_installed_commit_hash_no_checksum(c, commit_hash) ==
    [exists |-> TRUE, commit_hash |-> commit_hash, install_checksum |-> <<>>]

_set_installed_commit_hash(c, commit_hash) ==
    [exists |-> TRUE, commit_hash |-> commit_hash,
     install_checksum |-> _get_install_checksum(c)]

\* the property installed_commit_hash
installed_commit_hash(e) == _get_installed_commit_hash(conf[e], status[PathOf(e)])

(***************************************************************************)
(* The variable namespace.                                                 *)
(***************************************************************************)

\* (a variant that leaves ASV_COMMIT as it was)
_set_commit_hash_kept(ev, commit_hash) == ev

_set_commit_hash(ev, commit_hash) == [ev EXCEPT !.ASV_COMMIT = commit_hash]

_set_build_dirs(ev, build_dir, cache_dir) ==
    [ev EXCEPT !.ASV_BUILD_DIR = build_dir, !.ASV_BUILD_CACHE_DIR = cache_dir]

\* os.path.join(self._build_root, self._repo_subdir) or self._build_root
BuildDir(c) == IF c.repo_subdir # "" THEN "project/" \o c.repo_subdir ELSE "project"

(***************************************************************************)
(* The build cache (build_cache.BuildCache), one per root.  An entry is    *)
(* absent, building (in building) or valid (in order, the valid entries    *)
(* from the least to the most recently finalized); art[r] is what the      *)
(* directory of entry r holds: <<>> or the checksum of the configuration   *)
(* whose build commands filled it.                                         *)
(***************************************************************************)

EmptyCache == [building |-> {}, order |-> <<>>, art |-> [r \in Revs |-> <<>>]]

Without(s, r) == SelectSeq(s, LAMBDA x : x # r)

CacheState(c, r) ==
    IF r \in Range(c.order) THEN "valid"
    ELSE IF r \in c.building THEN "building" ELSE "absent"

\* (a variant that also returns the directory of a building entry)
get_cache_dir_unfinished(c, r) == IF CacheState(c, r) # "absent" THEN r ELSE None

\* the directory of revision r in a cache is named by r
get_cache_dir(c, r) == IF CacheState(c, r) = "valid" THEN r ELSE None

\* least-recently-finalized entries go first, never a building one
RECURSIVE Evict(_, _)
Evict(c, size) ==
    IF Cardinality(c.building) + Len(c.order) > size /\ c.order # <<>>
    THEN Evict([c EXCEPT !.order = Tail(@), !.art[Head(c.order)] = <<>>], size)
    ELSE c

create_cache_dir(c, r, size) ==
    Evict([building |-> c.building \cup {r},
           order    |-> Without(c.order, r),
           art      |-> [c.art EXCEPT ![r] = <<>>]], size)

finalize_cache_dir(c, r) ==
    IF CacheState(c, r) = "absent" THEN c
    ELSE [c EXCEPT !.building = @ \ {r}, !.order = Append(Without(@, r), r)]

\* (a variant that roots every cache at the environment root)
CacheRoot_env_dir(e) == <<conf_env_dir>>

\* self._cache = build_cache.BuildCache(conf, self._path)
CacheRoot(e) == PathOf(e)

Roots == {CacheRoot(e) : e \in Envs}

(***************************************************************************)
(* Environment.__init__ and Environment.install_project.                   *)
(*                                                                         *)
(* install_project blocks on repo.checkout and on the uninstall, build and *)
(* install commands; pc[e] names the external call it is blocked on:       *)
(* "checkout", "uninstall", "build", "install", or "idle" when no call of  *)
(* install_project is in progress.  An external call may raise, and the    *)
(* exception leaves install_project.                                       *)
(***************************************************************************)

NoWork == [checkout |-> 0, uninstall |-> 0, build |-> 0, install |-> 0,
           status_writes |-> 0, cache_writes |-> 0]

NoCall == [arg |-> None, res |-> "none", ran |-> NoWork]

\* the namespace __init__ leaves: ASV_COMMIT from the persisted status
InitialEnvVars(c, data) ==
    _set_commit_hash([ASV_COMMIT |-> None, ASV_BUILD_DIR |-> None,
                      ASV_BUILD_CACHE_DIR |-> None],
                     _get_installed_commit_hash(c, data))

InstallInit ==
    /\ conf = [e \in Envs |-> ConfA]
    /\ status = [p \in Paths |-> NoFile]
    /\ cache = [root \in Roots |-> EmptyCache]
    /\ cache_size \in CacheSizes
    /\ env_vars = [e \in Envs |-> InitialEnvVars(ConfA, NoFile)]
    /\ pc = [e \in Envs |-> "idle"]
    /\ arg = [e \in Envs |-> None]
    /\ ncalls = [e \in Envs |-> 0]
    /\ res = [e \in Envs |-> "none"]
    /\ ran = [e \in Envs |-> NoWork]
    /\ prev = [e \in Envs |-> NoCall]

\* Environment.__init__: a new Environment object for the identity of e, made
\* from configuration c (a new run of the program; what the object before it
\* was doing ends with its process).
Construct(e, c) ==
    /\ conf' = [conf EXCEPT ![e] = c]
    /\ env_vars' = [env_vars EXCEPT ![e] = InitialEnvVars(c, status[PathOf(e)])]
    /\ pc' = [pc EXCEPT ![e] = "idle"]
    /\ arg' = [arg EXCEPT ![e] = None]
    /\ res' = [res EXCEPT ![e] = "none"]
    /\ ran' = [ran EXCEPT ![e] = NoWork]
    /\ prev' = [prev EXCEPT ![e] = NoCall]
    /\ UNCHANGED <<status, cache, cache_size, ncalls>>
    /\ UNCHANGED <<createVars, cacheOpVars, identityVars, expansionVars>>

\* install_project up to the call of repo.checkout, or all of it when the
\* persisted status names commit_hash.
InstallProject(e, commit_hash) ==
    /\ pc[e] = "idle"
    /\ ncalls[e] < MaxCalls
    /\ ncalls' = [ncalls EXCEPT ![e] = @ + 1]
    /\ arg' = [arg EXCEPT ![e] = commit_hash]
    /\ prev' = [prev EXCEPT ![e] = [arg |-> arg[e], res |-> res[e], ran |-> ran[e]]]
    /\ ran' = [ran EXCEPT ![e] = NoWork]
    /\ LET installed == installed_commit_hash(e)
       IN  IF installed = commit_hash
           THEN /\ env_vars' = [env_vars EXCEPT ![e] =
                       _set_build_dirs(_set_commit_hash(@, installed), None, None)]
                /\ res' = [res EXCEPT ![e] = "noop"]
                /\ pc' = pc
           ELSE \* checkout_project: _set_commit_hash, then repo.checkout
                /\ env_vars' = [env_vars EXCEPT ![e] = _set_commit_hash(@, commit_hash)]
                /\ res' = [res EXCEPT ![e] = "running"]
                /\ pc' = [pc EXCEPT ![e] = "checkout"]
    /\ UNCHANGED <<conf, status, cache, cache_size>>
    /\ UNCHANGED <<createVars, cacheOpVars, identityVars, expansionVars>>

\* an external call raises: the exception propagates out of install_project
Raise(e, what) ==
    /\ pc' = [pc EXCEPT ![e] = "idle"]
    /\ res' = [res EXCEPT ![e] = what]

\* what _uninstall_project persists before its commands run
InvalidatedStatus(c) == _set_installed_commit_hash(c, None)

\* (a variant in which the installation is marked invalid before the checkout)
CheckoutFails_invalidates(e) ==
    /\ pc[e] = "checkout"
    /\ status' = [status EXCEPT ![PathOf(e)] = InvalidatedStatus(conf[e])]
    /\ ran' = [ran EXCEPT ![e].checkout = @ + 1]
    /\ Raise(e, "checkout_error")
    /\ UNCHANGED <<conf, cache, cache_size, env_vars, arg, ncalls, prev>>
    /\ UNCHANGED <<createVars, cacheOpVars, identityVars, expansionVars>>

\* repo.checkout raises
CheckoutFails(e) ==
    /\ pc[e] = "checkout"
    /\ ran' = [ran EXCEPT ![e].checkout = @ + 1]
    /\ Raise(e, "checkout_error")
    /\ UNCHANGED <<conf, status, cache, cache_size, env_vars, arg, ncalls, prev>>
    /\ UNCHANGED <<createVars, cacheOpVars, identityVars, expansionVars>>

\* (a variant in which _uninstall_project does not mark the installation invalid)
CheckoutReturns_no_invalidate(e) ==
    /\ pc[e] = "checkout"
    /\ env_vars' = [env_vars EXCEPT ![e] = _set_build_dirs(@, BuildDir(conf[e]), None)]
    /\ ran' = [ran EXCEPT ![e].checkout = @ + 1]
    /\ pc' = [pc EXCEPT ![e] = "uninstall"]
    /\ UNCHANGED <<conf, status, cache, cache_size, arg, ncalls, res, prev>>
    /\ UNCHANGED <<createVars, cacheOpVars, identityVars, expansionVars>>

\* repo.checkout returns; _set_build_dirs(build_dir, None); _uninstall_project
\* marks the installation invalid and comes to its commands.
CheckoutReturns(e) ==
    /\ pc[e] = "checkout"
    /\ env_vars' = [env_vars EXCEPT ![e] = _set_build_dirs(@, BuildDir(conf[e]), None)]
    /\ status' = [status EXCEPT ![PathOf(e)] = InvalidatedStatus(conf[e])]
    /\ ran' = [ran EXCEPT ![e].checkout = @ + 1, ![e].status_writes = @ + 1]
    /\ pc' = [pc EXCEPT ![e] = "uninstall"]
    /\ UNCHANGED <<conf, cache, cache_size, arg, ncalls, res, prev>>
    /\ UNCHANGED <<createVars, cacheOpVars, identityVars, expansionVars>>

\* an uninstall command raises (interpolation, exit code, spawn, timeout)
UninstallFails(e) ==
    /\ pc[e] = "uninstall"
    /\ UninstallCmds(conf[e]) # <<>>
    /\ ran' = [ran EXCEPT ![e].uninstall = @ + 1]
    /\ Raise(e, "uninstall_error")
    /\ UNCHANGED <<conf, status, cache, cache_size, env_vars, arg, ncalls, prev>>
    /\ UNCHANGED <<createVars, cacheOpVars, identityVars, expansionVars>>

\* the uninstall commands are through; "Build if not in cache" up to the
\* build commands, or to the install commands when the entry is valid.
UninstallReturns(e) ==
    /\ pc[e] = "uninstall"
    /\ LET root == CacheRoot(e)
           cache_dir == get_cache_dir(cache[root], arg[e])
           ran1 == IF UninstallCmds(conf[e]) # <<>>
                   THEN [ran[e] EXCEPT !.uninstall = @ + 1] ELSE ran[e]
       IN  IF cache_dir # None
           THEN /\ env_vars' = [env_vars EXCEPT ![e] =
                       _set_build_dirs(@, BuildDir(conf[e]), cache_dir)]
                /\ cache' = cache
                /\ ran' = [ran EXCEPT ![e] = ran1]
                /\ pc' = [pc EXCEPT ![e] = "install"]
           ELSE /\ cache' = [cache EXCEPT ![root] =
                       create_cache_dir(@, arg[e], cache_size)]
                /\ env_vars' = [env_vars EXCEPT ![e] =
                       _set_build_dirs(@, BuildDir(conf[e]), arg[e])]
                /\ ran' = [ran EXCEPT ![e] = [ran1 EXCEPT !.cache_writes = @ + 1]]
                /\ pc' = [pc EXCEPT ![e] = "build"]
    /\ UNCHANGED <<conf, status, cache_size, arg, ncalls, res, prev>>
    /\ UNCHANGED <<createVars, cacheOpVars, identityVars, expansionVars>>

\* (a variant in which a build that failed leaves its entry finalized)
BuildFails_finalizes(e) ==
    /\ pc[e] = "build"
    /\ BuildCmds(conf[e]) # <<>>
    /\ cache' = [cache EXCEPT ![CacheRoot(e)] = finalize_cache_dir(@, arg[e])]
    /\ ran' = [ran EXCEPT ![e].build = @ + 1]
    /\ Raise(e, "build_error")
    /\ UNCHANGED <<conf, status, cache_size, env_vars, arg, ncalls, prev>>
    /\ UNCHANGED <<createVars, cacheOpVars, identityVars, expansionVars>>

\* a build command raises
BuildFails(e) ==
    /\ pc[e] = "build"
    /\ BuildCmds(conf[e]) # <<>>
    /\ ran' = [ran EXCEPT ![e].build = @ + 1]
    /\ Raise(e, "build_error")
    /\ UNCHANGED <<conf, status, cache, cache_size, env_vars, arg, ncalls, prev>>
    /\ UNCHANGED <<createVars, cacheOpVars, identityVars, expansionVars>>

\* (a variant that finalizes the cache entry as soon as the build is through)
BuildReturns_finalizes(e) ==
    /\ pc[e] = "build"
    /\ IF BuildCmds(conf[e]) # <<>>
       THEN /\ ran' = [ran EXCEPT ![e].build = @ + 1, ![e].cache_writes = @ + 1]
            /\ cache' = [cache EXCEPT ![CacheRoot(e)] =
                             finalize_cache_dir(
                                 [@ EXCEPT !.art[arg[e]] = _get_install_checksum(conf[e])],
                                 arg[e])]
       ELSE /\ ran' = [ran EXCEPT ![e].cache_writes = @ + 1]
            /\ cache' = [cache EXCEPT ![CacheRoot(e)] = finalize_cache_dir(@, arg[e])]
    /\ pc' = [pc EXCEPT ![e] = "install"]
    /\ UNCHANGED <<conf, status, cache_size, env_vars, arg, ncalls, res, prev>>
    /\ UNCHANGED <<createVars, cacheOpVars, identityVars, expansionVars>>

\* the build commands are through: the cache directory holds their output
BuildReturns(e) ==
    /\ pc[e] = "build"
    /\ IF BuildCmds(conf[e]) # <<>>
       THEN /\ ran' = [ran EXCEPT ![e].build = @ + 1]
            /\ cache' = [cache EXCEPT ![CacheRoot(e)].art[arg[e]] =
                             _get_install_checksum(conf[e])]
       ELSE UNCHANGED <<ran, cache>>
    /\ pc' = [pc EXCEPT ![e] = "install"]
    /\ UNCHANGED <<conf, status, cache_size, env_vars, arg, ncalls, res, prev>>
    /\ UNCHANGED <<createVars, cacheOpVars, identityVars, expansionVars>>

\* (a variant that persists the new status before the install commands run)
InstallFails_after_persist(e) ==
    /\ pc[e] = "install"
    /\ InstallCmds(conf[e]) # <<>>
    /\ status' = [status EXCEPT ![PathOf(e)] =
                      _set_installed_commit_hash(conf[e], arg[e])]
    /\ ran' = [ran EXCEPT ![e].install = @ + 1, ![e].status_writes = @ + 1]
    /\ Raise(e, "install_error")
    /\ UNCHANGED <<conf, cache, cache_size, env_vars, arg, ncalls, prev>>
    /\ UNCHANGED <<createVars, cacheOpVars, identityVars, expansionVars>>

\* an install command raises
InstallFails(e) ==
    /\ pc[e] = "install"
    /\ InstallCmds(conf[e]) # <<>>
    /\ ran' = [ran EXCEPT ![e].install = @ + 1]
    /\ Raise(e, "install_error")
    /\ UNCHANGED <<conf, status, cache, cache_size, env_vars, arg, ncalls, prev>>
    /\ UNCHANGED <<createVars, cacheOpVars, identityVars, expansionVars>>

\* the install commands are through: finalize_cache_dir, then
\* _set_installed_commit_hash(commit_hash)
InstallReturns(e) ==
    /\ pc[e] = "install"
    /\ cache' = [cache EXCEPT ![CacheRoot(e)] = finalize_cache_dir(@, arg[e])]
    /\ status' = [status EXCEPT ![PathOf(e)] =
                      _set_installed_commit_hash(conf[e], arg[e])]
    /\ ran' = [ran EXCEPT ![e] =
                   [@ EXCEPT !.install = IF InstallCmds(conf[e]) # <<>> THEN @ + 1 ELSE @,
                             !.cache_writes = @ + 1,
                             !.status_writes = @ + 1]]
    /\ pc' = [pc EXCEPT ![e] = "idle"]
    /\ res' = [res EXCEPT ![e] = "ok"]
    /\ UNCHANGED <<conf, cache_size, env_vars, arg, ncalls, prev>>
    /\ UNCHANGED <<createVars, cacheOpVars, identityVars, expansionVars>>

(***************************************************************************)
(* Environment.check_presence and Environment.create.                      *)
(*                                                                         *)
(* create touches the file system one call at a time; cpc[o] names the     *)
(* call it has come to: "rmtree" (line 513), "exists" (516), "makedirs"    *)
(* (518), "setup" (530), "save" (537), or "idle" when no create of o is in *)
(* progress.                                                               *)
(***************************************************************************)

MaxCreates == 2

\* what the info file of an environment holds; requirements is a dict, which
\* compares by its items whatever their order
Descriptor(o) ==
    [tool_name |-> Identity(o).tool_name, python |-> Identity(o).python,
     requirements |-> Range(Identity(o).requirements)]

NoInfo == [exists |-> FALSE, content |-> [tool_name |-> <<>>, python |-> <<>>,
                                          requirements |-> {}]]

NoCreateWork == [check |-> 0, found |-> 0, rmtree |-> 0, makedirs |-> 0, raced |-> 0,
                 setup |-> 0, save |-> 0]

NoCreate == [res |-> "none", ran |-> NoCreateWork]

\* probe_ok: pip and python are found under the path and python runs
check_presence(o, probe_ok) ==
    /\ env_dir_exists
    /\ info[PathOf(o)].exists
    /\ info[PathOf(o)].content = Descriptor(o)
    /\ probe_ok

\* what a run of the program before this one may have left on disk
CreateInit ==
    /\ env_dir_exists \in BOOLEAN
    /\ path_exists \in [Paths -> BOOLEAN]
    /\ \A p \in Paths : path_exists[p] => env_dir_exists
    /\ info \in [Paths -> {NoInfo} \cup
                    {[exists |-> TRUE, content |-> Descriptor(o)] : o \in Objs}]
    /\ \A p \in Paths : info[p].exists => path_exists[p]
    /\ is_setup = [o \in Objs |-> FALSE]
    /\ cpc = [o \in Objs |-> "idle"]
    /\ ccalls = [o \in Objs |-> 0]
    /\ cres = [o \in Objs |-> "none"]
    /\ cran = [o \in Objs |-> NoCreateWork]
    /\ cprev = [o \in Objs |-> NoCreate]

\* util.long_path_rmtree(self._path): the directory goes with all it holds,
\* the info file, the install status and the build cache rooted in it
Rmtree(p) ==
    /\ path_exists' = [path_exists EXCEPT ![p] = FALSE]
    /\ info' = [info EXCEPT ![p] = NoInfo]
    /\ status' = [status EXCEPT ![p] = NoFile]
    /\ cache' = [root \in Roots |-> IF root = p THEN EmptyCache ELSE cache[root]]

\* (a variant of create without the test of self._is_setup)
Create_always(o, probe_ok) ==
    /\ cpc[o] = "idle"
    /\ ccalls[o] < MaxCreates
    /\ ccalls' = [ccalls EXCEPT ![o] = @ + 1]
    /\ cprev' = [cprev EXCEPT ![o] = [res |-> cres[o], ran |-> cran[o]]]
    /\ cran' = [cran EXCEPT ![o] =
                    [NoCreateWork EXCEPT !.check = 1,
                         !.found = IF check_presence(o, probe_ok) THEN 1 ELSE 0]]
    /\ cres' = [cres EXCEPT ![o] = "running"]
    /\ cpc' = [cpc EXCEPT ![o] =
                   IF check_presence(o, probe_ok) THEN "save" ELSE "rmtree"]
    /\ UNCHANGED <<env_dir_exists, path_exists, info, is_setup, storeVars>>
    /\ UNCHANGED <<installVars, cacheOpVars, identityVars, expansionVars>>

\* create up to its first change of the file system: the test of
\* self._is_setup and check_presence
Create(o, probe_ok) ==
    /\ cpc[o] = "idle"
    /\ ccalls[o] < MaxCreates
    /\ ccalls' = [ccalls EXCEPT ![o] = @ + 1]
    /\ cprev' = [cprev EXCEPT ![o] = [res |-> cres[o], ran |-> cran[o]]]
    /\ IF is_setup[o]
       THEN /\ cran' = [cran EXCEPT ![o] = NoCreateWork]
            /\ cres' = [cres EXCEPT ![o] = "noop"]
            /\ cpc' = cpc
       ELSE /\ cran' = [cran EXCEPT ![o] =
                            [NoCreateWork EXCEPT !.check = 1,
                                 !.found = IF check_presence(o, probe_ok) THEN 1 ELSE 0]]
            /\ cres' = [cres EXCEPT ![o] = "running"]
            /\ cpc' = [cpc EXCEPT ![o] =
                           IF check_presence(o, probe_ok) THEN "save" ELSE "rmtree"]
    /\ UNCHANGED <<env_dir_exists, path_exists, info, is_setup, storeVars>>
    /\ UNCHANGED <<installVars, cacheOpVars, identityVars, expansionVars>>

\* if os.path.exists(self._path): util.long_path_rmtree(self._path)
CreateRemoves(o) ==
    /\ cpc[o] = "rmtree"
    /\ IF path_exists[PathOf(o)]
       THEN /\ Rmtree(PathOf(o))
            /\ cran' = [cran EXCEPT ![o].rmtree = @ + 1]
       ELSE UNCHANGED <<path_exists, info, status, cache, cran>>
    /\ cpc' = [cpc EXCEPT ![o] = "exists"]
    /\ UNCHANGED <<env_dir_exists, is_setup, ccalls, cres, cprev, cache_size>>
    /\ UNCHANGED <<installVars, cacheOpVars, identityVars, expansionVars>>

\* if not os.path.exists(self._env_dir)
CreateTestsRoot(o) ==
    /\ cpc[o] = "exists"
    /\ cpc' = [cpc EXCEPT ![o] = IF env_dir_exists THEN "setup" ELSE "makedirs"]
    /\ UNCHANGED <<env_dir_exists, path_exists, info, is_setup, ccalls, cres,
                   cran, cprev, storeVars>>
    /\ UNCHANGED <<installVars, cacheOpVars, identityVars, expansionVars>>

\* (a variant in which the OSError of os.makedirs is not caught)
CreateMakedirs_raises(o) ==
    /\ cpc[o] = "makedirs"
    /\ env_dir_exists' = TRUE
    /\ cran' = [cran EXCEPT ![o].makedirs = IF env_dir_exists THEN @ ELSE @ + 1,
                            ![o].raced = IF env_dir_exists THEN @ + 1 ELSE @]
    /\ cpc' = [cpc EXCEPT ![o] = IF env_dir_exists THEN "idle" ELSE "setup"]
    /\ cres' = [cres EXCEPT ![o] = IF env_dir_exists THEN "makedirs_error" ELSE @]
    /\ UNCHANGED <<path_exists, info, is_setup, ccalls, cprev, storeVars>>
    /\ UNCHANGED <<installVars, cacheOpVars, identityVars, expansionVars>>

\* os.makedirs(self._env_dir); its OSError, raised when the directory has
\* come to exist since the test, is passed over
CreateMakedirs(o) ==
    /\ cpc[o] = "makedirs"
    /\ env_dir_exists' = TRUE
    /\ cran' = [cran EXCEPT ![o].makedirs = IF env_dir_exists THEN @ ELSE @ + 1,
                            ![o].raced = IF env_dir_exists THEN @ + 1 ELSE @]
    /\ cpc' = [cpc EXCEPT ![o] = "setup"]
    /\ UNCHANGED <<path_exists, info, is_setup, ccalls, cres, cprev, storeVars>>
    /\ UNCHANGED <<installVars, cacheOpVars, identityVars, expansionVars>>

\* self._setup() returns: the directory of the environment exists
SetupReturns(o) ==
    /\ cpc[o] = "setup"
    /\ env_dir_exists
    /\ path_exists' = [path_exists EXCEPT ![PathOf(o)] = TRUE]
    /\ cran' = [cran EXCEPT ![o].setup = @ + 1]
    /\ cpc' = [cpc EXCEPT ![o] = "save"]
    /\ UNCHANGED <<env_dir_exists, info, is_setup, ccalls, cres, cprev, storeVars>>
    /\ UNCHANGED <<installVars, cacheOpVars, identityVars, expansionVars>>

\* (a variant whose handler leaves what self._setup() has created)
SetupRaises_no_cleanup(o, partial) ==
    /\ cpc[o] = "setup"
    /\ path_exists' = [path_exists EXCEPT ![PathOf(o)] = @ \/ partial]
    /\ cran' = [cran EXCEPT ![o].setup = @ + 1]
    /\ cpc' = [cpc EXCEPT ![o] = "idle"]
    /\ cres' = [cres EXCEPT ![o] = "setup_error"]
    /\ UNCHANGED <<env_dir_exists, info, is_setup, ccalls, cprev, storeVars>>
    /\ UNCHANGED <<installVars, cacheOpVars, identityVars, expansionVars>>

\* self._setup() raises, having created the directory in part (partial) or
\* not: the handler removes the directory if it exists, and raises again
SetupRaises(o, partial) ==
    /\ cpc[o] = "setup"
    /\ IF path_exists[PathOf(o)] \/ partial
       THEN /\ Rmtree(PathOf(o))
            /\ cran' = [cran EXCEPT ![o].setup = @ + 1, ![o].rmtree = @ + 1]
       ELSE /\ cran' = [cran EXCEPT ![o].setup = @ + 1]
            /\ UNCHANGED <<path_exists, info, status, cache>>
    /\ cpc' = [cpc EXCEPT ![o] = "idle"]
    /\ cres' = [cres EXCEPT ![o] = "setup_error"]
    /\ UNCHANGED <<env_dir_exists, is_setup, ccalls, cprev, cache_size>>
    /\ UNCHANGED <<installVars, cacheOpVars, identityVars, expansionVars>>

\* self.save_info_file(self._path); self._is_setup = True
SaveInfo(o) ==
    /\ cpc[o] = "save"
    /\ path_exists[PathOf(o)]
    /\ info' = [info EXCEPT ![PathOf(o)] =
                    [exists |-> TRUE, content |-> Descriptor(o)]]
    /\ is_setup' = [is_setup EXCEPT ![o] = TRUE]
    /\ cran' = [cran EXCEPT ![o].save = @ + 1]
    /\ cpc' = [cpc EXCEPT ![o] = "idle"]
    /\ cres' = [cres EXCEPT ![o] = "ok"]
    /\ UNCHANGED <<env_dir_exists, path_exists, ccalls, cprev, storeVars>>
    /\ UNCHANGED <<installVars, cacheOpVars, identityVars, expansionVars>>

\* save_info_file raises: the directory to write into is gone
SaveInfoRaises(o) ==
    /\ cpc[o] = "save"
    /\ ~path_exists[PathOf(o)]
    /\ cran' = [cran EXCEPT ![o].save = @ + 1]
    /\ cpc' = [cpc EXCEPT ![o] = "idle"]
    /\ cres' = [cres EXCEPT ![o] = "save_error"]
    /\ UNCHANGED <<env_dir_exists, path_exists, info, is_setup, ccalls, cprev,
                   storeVars>>
    /\ UNCHANGED <<installVars, cacheOpVars, identityVars, expansionVars>>

(***************************************************************************)
(* Rule matching and the expansion of the requirement matrix.              *)
(*                                                                         *)
(* A dict is a function on its keys.  A value of a dict is a string (a     *)
(* sequence of code points) or None: the record Val(s) or NoneVal.         *)
(***************************************************************************)

Val(s) == [none |-> FALSE, s |-> s]

NoneVal == [none |-> TRUE, s |-> <<>>]

EmptyDict == [k \in {} |-> NoneVal]

\* the alternatives, in order, of a regular expression made of literal
\* characters and "|" (124)
RECURSIVE Alternatives(_)
Alternatives(p) ==
    IF \E i \in 1..Len(p) : p[i] = 124
    THEN LET i == CHOOSE k \in 1..Len(p) :
                      p[k] = 124 /\ \A j \in 1..(k - 1) : p[j] # 124
         IN  <<SubSeq(p, 1, i - 1)>> \o Alternatives(SubSeq(p, i + 1, Len(p)))
    ELSE <<p>>

IsPrefix(a, w) == Len(a) <= Len(w) /\ SubSeq(w, 1, Len(a)) = a

\* re.match(p, w): the match of the first alternative that matches at the
\* start of w (the regex engine takes the alternatives from left to right and
\* stops at the first that succeeds), or None
re_match(p, w) ==
    LET alts == Alternatives(p)
    IN  IF \E i \in 1..Len(alts) : IsPrefix(alts[i], w)
        THEN LET i == CHOOSE k \in 1..Len(alts) :
                          /\ IsPrefix(alts[k], w)
                          /\ \A j \in 1..(k - 1) : ~IsPrefix(alts[j], w)
             IN  [none |-> FALSE, end |-> Len(alts[i])]
        ELSE [none |-> TRUE, end |-> 0]

\* match_rule returns False at the first key that does not match and True
\* when the loop ends
match_rule(target, rule) ==
    \A key \in DOMAIN rule :
        LET value == rule[key]
        IN  IF value.none
            THEN ~(key \in DOMAIN target /\ ~target[key].none)
            ELSE IF key \notin DOMAIN target \/ target[key].none
            THEN FALSE
            ELSE LET w == target[key].s
                     m == re_match(value.s, w)
                 IN  ~(m.none \/ m.end # Len(w))

\* the strings "3" and "9" (python versions), "v" (a tool name), "l" and "w"
\* (platforms), "", "1", "2"
S3 == Val(<<51>>)
S9 == Val(<<57>>)
Sv == Val(<<118>>)
Sl == Val(<<108>>)
Sw == Val(<<119>>)
Se == Val(<<>>)
S1 == Val(<<49>>)
S2 == Val(<<50>>)

\* the keys in use, in the ascending order of Python strings
KeyOrder == <<"A", "B", "C", "environment_type", "python", "sys_platform">>

\* sorted(keys)
SortedKeys(S) == SelectSeq(KeyOrder, LAMBDA k : k \in S)

\* sys.platform
sys_platform == Sl

\* the tool_name of the class that get_environment_class returns
found_tool_name == Sv

\* platform_keys
platform_keys(environment_type) ==
    [k \in {"environment_type", "sys_platform"} |->
        IF k = "environment_type" THEN environment_type ELSE sys_platform]

\* an entry of conf.matrix: a list of values, or one value that is not a list
ListAxis(items) == [list |-> TRUE, items |-> items]
SingleAxis(v) == [list |-> FALSE, items |-> <<v>>]

\* value if isinstance(value, list) else [value]; [''] if value == []
AxisValues(axis) ==
    IF ~axis.list THEN <<axis.items[1]>>
    ELSE IF axis.items = <<>> THEN <<Se>>
    ELSE axis.items

\* keys = sorted(conf.matrix.keys()); values = [conf.matrix[key] ...]
MatrixKeys(matrix) == SortedKeys(DOMAIN matrix)

MatrixValues(matrix) ==
    [i \in 1..Len(MatrixKeys(matrix)) |-> AxisValues(matrix[MatrixKeys(matrix)[i]])]

\* itertools.product(*values): the tuples in the order of the product, the
\* last list turning fastest
RECURSIVE Product(_)
Product(values) ==
    IF values = <<>> THEN << <<>> >>
    ELSE LET rest == Product(Tail(values))
             head == values[1]
         IN  [n \in 1..(Len(head) * Len(rest)) |->
                 <<head[((n - 1) \div Len(rest)) + 1]>>
                     \o rest[((n - 1) % Len(rest)) + 1]]

\* all_keys and all_combinations of one python
all_keys(matrix) == <<"python">> \o MatrixKeys(matrix)

all_combinations(python, matrix) == Product(<< <<python>> >> \o MatrixValues(matrix))

\* dict(zip(keys, combination)): of two equal keys the later one wins
ZipDict(keys, combination) ==
    [k \in Range(keys) |->
        combination[CHOOSE i \in 1..Len(keys) :
                        keys[i] = k /\ \A j \in (i + 1)..Len(keys) : keys[j] # k]]

\* d.update(e)
Update(d, e) == [k \in DOMAIN d \cup DOMAIN e |-> IF k \in DOMAIN e THEN e[k] ELSE d[k]]

\* the items of d whose value is not None
Pruned(d) == [k \in {x \in DOMAIN d : ~d[x].none} |-> d[k]]

\* get_env_type(python) with env_classes = classes: whether it calls
\* get_environment_class, whether that raises EnvironmentUnavailable, and if
\* not the type and the dict afterwards
get_env_type(classes, python, unavailable) ==
    IF python \in DOMAIN classes /\ ~classes[python].none
    THEN [looked |-> FALSE, raised |-> FALSE, env_type |-> classes[python],
          env_classes |-> classes]
    ELSE IF python \in unavailable
    THEN [looked |-> TRUE, raised |-> TRUE, env_type |-> NoneVal,
          env_classes |-> classes]
    ELSE [looked |-> TRUE, raised |-> FALSE, env_type |-> found_tool_name,
          env_classes |-> Update(classes, [k \in {python} |-> found_tool_name])]

\* (a variant that matches no rule)
Excluded_never(target, exclude) == FALSE

\* for rule in conf.exclude: if match_rule(target, rule): break
Excluded(target, exclude) == \E i \in 1..Len(exclude) : match_rule(target, exclude[i])

(***************************************************************************)
(* iter_requirement_matrix, one step of its loops at a time.               *)
(***************************************************************************)

\* the python of the outer loop, and the combination of the inner loop
CurPython == m_in.pythons[m_py]

Combinations(i) == all_combinations(m_in.pythons[i], m_in.matrix)

CurCombination == Combinations(m_py)[m_comb]

\* if not environment_type
NeedsLookup == m_in.environment_type.none \/ m_in.environment_type.s = <<>>

\* target['environment_type'] of the python given: environment_type, or what
\* get_env_type makes of it
ResolvedType(python) ==
    IF NeedsLookup
    THEN get_env_type(env_classes, python, m_in.unavailable)
    ELSE [looked |-> FALSE, raised |-> FALSE, env_type |-> m_in.environment_type,
          env_classes |-> env_classes]

\* get_environment_class is called, or not, and env_classes is updated
Resolve(python) ==
    /\ lookups' = IF ResolvedType(python).looked THEN Append(lookups, python)
                  ELSE lookups
    /\ env_classes' = ResolvedType(python).env_classes

\* target = dict(zip(all_keys, combination)); target.update(platform_keys);
\* target['environment_type'] = get_env_type(target['python'])
CombinationTarget(i, n, env_type) ==
    Update(ZipDict(all_keys(m_in.matrix), Combinations(i)[n]), platform_keys(env_type))

\* the inner loop goes on to the next combination, or ends
NextCombination ==
    IF m_comb < Len(Combinations(m_py))
    THEN m_comb' = m_comb + 1 /\ m_pc' = "matrix"
    ELSE m_comb' = m_comb /\ m_pc' = "fallback"

\* get_env_type raises EnvironmentUnavailable: log.warn, continue
MatrixLookupFails ==
    /\ m_pc = "matrix"
    /\ ResolvedType(ZipDict(all_keys(m_in.matrix), CurCombination)["python"]).raised
    /\ Resolve(ZipDict(all_keys(m_in.matrix), CurCombination)["python"])
    /\ NextCombination
    /\ UNCHANGED <<m_in, m_py, m_inc, empty_matrix, out>>
    /\ UNCHANGED <<lifecycleVars, matchVars, commandVars>>

\* a rule of conf.exclude matches the target: break
MatrixExcluded ==
    /\ m_pc = "matrix"
    /\ LET r == ResolvedType(ZipDict(all_keys(m_in.matrix), CurCombination)["python"])
       IN  /\ ~r.raised
           /\ Excluded(CombinationTarget(m_py, m_comb, r.env_type), m_in.exclude)
    /\ Resolve(ZipDict(all_keys(m_in.matrix), CurCombination)["python"])
    /\ NextCombination
    /\ UNCHANGED <<m_in, m_py, m_inc, empty_matrix, out>>
    /\ UNCHANGED <<lifecycleVars, matchVars, commandVars>>

\* no rule matches: empty_matrix = False; yield the items of the combination
\* that are not None
MatrixYields ==
    /\ m_pc = "matrix"
    /\ LET r == ResolvedType(ZipDict(all_keys(m_in.matrix), CurCombination)["python"])
       IN  /\ ~r.raised
           /\ ~Excluded(CombinationTarget(m_py, m_comb, r.env_type), m_in.exclude)
    /\ Resolve(ZipDict(all_keys(m_in.matrix), CurCombination)["python"])
    /\ empty_matrix' = FALSE
    /\ out' = Append(out, [origin |-> "matrix", py |-> m_py, n |-> m_comb,
                           set |-> Pruned(ZipDict(all_keys(m_in.matrix),
                                                  CurCombination))])
    /\ NextCombination
    /\ UNCHANGED <<m_in, m_py, m_inc>>
    /\ UNCHANGED <<lifecycleVars, matchVars, commandVars>>

\* what follows the loop over the pythons: return if explicit_selection,
\* else the loop over conf.include
AfterPythons ==
    IF m_in.explicit_selection \/ m_in.include = <<>>
    THEN m_pc' = "done"
    ELSE m_pc' = "include"

\* (a variant that yields the bare python whatever explicit_selection is)
EndOfPython_always ==
    /\ m_pc = "fallback"
    /\ out' = IF empty_matrix
              THEN Append(out, [origin |-> "bare", py |-> m_py, n |-> 0,
                                set |-> [k \in {"python"} |-> CurPython]])
              ELSE out
    /\ IF m_py < Len(m_in.pythons)
       THEN /\ m_py' = m_py + 1
            /\ m_comb' = 1
            /\ empty_matrix' = TRUE
            /\ m_pc' = "matrix"
       ELSE /\ AfterPythons
            /\ UNCHANGED <<m_py, m_comb, empty_matrix>>
    /\ UNCHANGED <<m_in, m_inc, env_classes, lookups>>
    /\ UNCHANGED <<lifecycleVars, matchVars, commandVars>>

\* the combinations of a python are through:
\* if empty_matrix and explicit_selection: yield dict(python=python)
EndOfPython ==
    /\ m_pc = "fallback"
    /\ out' = IF empty_matrix /\ m_in.explicit_selection
              THEN Append(out, [origin |-> "bare", py |-> m_py, n |-> 0,
                                set |-> [k \in {"python"} |-> CurPython]])
              ELSE out
    /\ IF m_py < Len(m_in.pythons)
       THEN /\ m_py' = m_py + 1
            /\ m_comb' = 1
            /\ empty_matrix' = TRUE
            /\ m_pc' = "matrix"
       ELSE /\ AfterPythons
            /\ UNCHANGED <<m_py, m_comb, empty_matrix>>
    /\ UNCHANGED <<m_in, m_inc, env_classes, lookups>>
    /\ UNCHANGED <<lifecycleVars, matchVars, commandVars>>

CurInclude == m_in.include[m_inc]

PlatformKeys == {"environment_type", "sys_platform"}

\* rule: the platform keys popped from the include; and what is left of it
IncludeRule(include) == [k \in DOMAIN include \cap PlatformKeys |-> include[k]]

IncludeRest(include) == [k \in DOMAIN include \ PlatformKeys |-> include[k]]

\* target = dict(platform_keys);
\* target['environment_type'] = get_env_type(include['python'])
IncludeTarget(env_type) == platform_keys(env_type)

\* the loop over conf.include goes on to the next entry, or ends
NextInclude ==
    IF m_inc < Len(m_in.include)
    THEN m_inc' = m_inc + 1 /\ m_pc' = "include"
    ELSE m_inc' = m_inc /\ m_pc' = "done"

\* if 'python' not in include: raise util.UserError
IncludeRaises ==
    /\ m_pc = "include"
    /\ "python" \notin DOMAIN CurInclude
    /\ m_pc' = "raised"
    /\ UNCHANGED <<m_in, m_py, m_comb, m_inc, env_classes, empty_matrix, lookups, out>>
    /\ UNCHANGED <<lifecycleVars, matchVars, commandVars>>

\* get_env_type raises EnvironmentUnavailable: log.warn, continue
IncludeLookupFails ==
    /\ m_pc = "include"
    /\ "python" \in DOMAIN CurInclude
    /\ ResolvedType(CurInclude["python"]).raised
    /\ Resolve(CurInclude["python"])
    /\ NextInclude
    /\ UNCHANGED <<m_in, m_py, m_comb, empty_matrix, out>>
    /\ UNCHANGED <<lifecycleVars, matchVars, commandVars>>

\* the platform keys of the include do not match: nothing is yielded
IncludeSkipped ==
    /\ m_pc = "include"
    /\ "python" \in DOMAIN CurInclude
    /\ LET r == ResolvedType(CurInclude["python"])
       IN  /\ ~r.raised
           /\ ~match_rule(IncludeTarget(r.env_type), IncludeRule(CurInclude))
    /\ Resolve(CurInclude["python"])
    /\ NextInclude
    /\ UNCHANGED <<m_in, m_py, m_comb, empty_matrix, out>>
    /\ UNCHANGED <<lifecycleVars, matchVars, commandVars>>

\* they match: the keys whose value is None are pruned; yield include
IncludeYields ==
    /\ m_pc = "include"
    /\ "python" \in DOMAIN CurInclude
    /\ LET r == ResolvedType(CurInclude["python"])
       IN  /\ ~r.raised
           /\ match_rule(IncludeTarget(r.env_type), IncludeRule(CurInclude))
    /\ Resolve(CurInclude["python"])
    /\ out' = Append(out, [origin |-> "include", py |-> 0, n |-> m_inc,
                           set |-> Pruned(IncludeRest(CurInclude))])
    /\ NextInclude
    /\ UNCHANGED <<m_in, m_py, m_comb, empty_matrix>>
    /\ UNCHANGED <<lifecycleVars, matchVars, commandVars>>

\* match_rule is applied to a target and a rule
MatchRule ==
    /\ mr_result = "none"
    /\ mr_result' = IF match_rule(mr_target, mr_rule) THEN "True" ELSE "False"
    /\ UNCHANGED <<mr_target, mr_rule>>
    /\ UNCHANGED <<lifecycleVars, matrixVars, commandVars>>

(***************************************************************************)
(* One expansion of a requirement matrix.                                  *)
(***************************************************************************)

\* dicts of one and of two items
D1(k, v) == [x \in {k} |-> v]

D2(k1, v1, k2, v2) == [x \in {k1, k2} |-> IF x = k1 THEN v1 ELSE v2]

\* conf.matrix: {}; {"A": ["1", "2"], "B": []}; {"A": ["1", None]};
\* {"A": "1"}
Matrices ==
    {EmptyDict,
     D2("A", ListAxis(<<S1, S2>>), "B", ListAxis(<<>>)),
     D1("A", ListAxis(<<S1, NoneVal>>)),
     D1("A", SingleAxis(S1))}

\* conf.exclude: []; [{"A": "1"}]; [{}]; [{"python": "9"}]; [{"A": None}];
\* [{"environment_type": "v", "A": "2"}, {"sys_platform": "w"}]
Excludes ==
    {<<>>,
     <<D1("A", S1)>>,
     <<EmptyDict>>,
     <<D1("python", S9)>>,
     <<D1("A", NoneVal)>>,
     <<D2("environment_type", Sv, "A", S2), D1("sys_platform", Sw)>>}

\* conf.include: []; [{"python": "3", "C": "1"}]; [{"C": "1"}];
\* [{"python": None, "C": "1"}];
\* [{"python": "9", "C": None}, {"python": "3", "sys_platform": "w"}];
\* [{"python": "3", "C": "1"}, {"C": "1"}];
\* [{"python": "9", "C": "1"}, {"python": "9", "C": "2"}]
Includes ==
    {<<>>,
     <<D2("python", S3, "C", S1)>>,
     <<D1("C", S1)>>,
     <<D2("python", NoneVal, "C", S1)>>,
     <<D2("python", S9, "C", NoneVal), D2("python", S3, "sys_platform", Sw)>>,
     <<D2("python", S3, "C", S1), D1("C", S1)>>,
     <<D2("python", S9, "C", S1), D2("python", S9, "C", S2)>>}

\* the pythons asked for
PythonLists == {<<S3>>, <<S9>>, <<S3, S9>>, <<S9, S3>>}

\* the pythons for which get_environment_class raises EnvironmentUnavailable
Unavailables == {{}, {S9}, {S9, NoneVal}}

\* environment_type: "" (to be looked up per python) or "v"
EnvironmentTypes == {Se, Sv}

Inputs ==
    [environment_type : EnvironmentTypes, pythons : PythonLists, matrix : Matrices,
     exclude : Excludes, include : Includes, explicit_selection : BOOLEAN,
     unavailable : Unavailables]

NoInput ==
    [environment_type : {Se}, pythons : {<<>>}, matrix : {EmptyDict},
     exclude : {<<>>}, include : {<<>>}, explicit_selection : {FALSE},
     unavailable : {{}}]

\* no expansion is under way
MatrixIdle ==
    /\ m_in \in NoInput
    /\ m_pc = "idle"
    /\ m_py = 1 /\ m_comb = 1 /\ m_inc = 1
    /\ env_classes = EmptyDict
    /\ empty_matrix = TRUE
    /\ lookups = <<>>
    /\ out = <<>>

\* no rule is being matched
MatchIdle ==
    /\ mr_target = EmptyDict
    /\ mr_rule = EmptyDict
    /\ mr_result = "idle"

(***************************************************************************)
(* _interpolate_and_run_commands: a command list is interpolated, then its *)
(* commands are run one after the other.  A command is known by an id and  *)
(* by the placeholders its template uses.                                  *)
(***************************************************************************)

\* kwargs: every variable of self._env_vars but ASV, lowercased and without
\* its prefix (a variable that is not set is None here), and wheel_file when
\* the build cache directory is a directory that holds exactly one wheel
InterpolationVars(in) ==
    {"project", "conf_dir", "env_name", "env_dir", "env_type"}
        \cup (IF in.env.ASV_COMMIT # None THEN {"commit"} ELSE {})
        \cup (IF in.env.ASV_BUILD_DIR # None THEN {"build_dir"} ELSE {})
        \cup (IF in.env.ASV_BUILD_CACHE_DIR # None THEN {"build_cache_dir"} ELSE {})
        \cup (IF in.env.ASV_BUILD_CACHE_DIR # None /\ in.isdir /\ in.wheels = 1
              THEN {"wheel_file"} ELSE {})

\* util.interpolate_command(c, kwargs): the command with its placeholders
\* filled in; it raises when a placeholder is not a key of kwargs
interpolate_command(c, kwargs) ==
    [raised |-> ~(c.uses \subseteq kwargs),
     cmd |-> [id |-> c.id, filled |-> c.uses \cap kwargs]]

\* _interpolate_commands(commands): [] if not commands; a command that is
\* not a list is a list of one; every command is interpolated
_interpolate_commands(in) ==
    LET commands == IF in.commands.list THEN in.commands.items
                    ELSE <<in.commands.items[1]>>
        kwargs == InterpolationVars(in)
    IN  IF in.commands.items = <<>>
        THEN [raised |-> FALSE, list |-> <<>>]
        ELSE [raised |-> \E i \in 1..Len(commands) :
                             interpolate_command(commands[i], kwargs).raised,
              list |-> [i \in 1..Len(commands) |->
                           interpolate_command(commands[i], kwargs).cmd]]

\* (a variant that interpolates a command only when its turn to run comes:
\* the commands before the first that cannot be interpolated are run)
InterpolateCommands_lazy ==
    /\ ci_pc = "interpolate"
    /\ LET commands == ci_in.commands.items
           kwargs == InterpolationVars(ci_in)
           n == Cardinality({i \in 1..Len(commands) :
                    \A j \in 1..i : ~interpolate_command(commands[j], kwargs).raised})
       IN  /\ ci_list' = [i \in 1..n |-> interpolate_command(commands[i], kwargs).cmd]
           /\ ci_pc' = IF n = 0 THEN (IF commands = <<>> THEN "done" ELSE "raised")
                       ELSE "run"
    /\ UNCHANGED <<ci_in, ci_exec>>
    /\ UNCHANGED <<lifecycleVars, matrixVars, matchVars>>

\* interpolated = self._interpolate_commands(commands)
InterpolateCommands ==
    /\ ci_pc = "interpolate"
    /\ LET r == _interpolate_commands(ci_in)
       IN  IF r.raised
           THEN ci_pc' = "raised" /\ ci_list' = <<>>
           ELSE ci_pc' = (IF r.list = <<>> THEN "done" ELSE "run") /\ ci_list' = r.list
    /\ UNCHANGED <<ci_in, ci_exec>>
    /\ UNCHANGED <<lifecycleVars, matrixVars, matchVars>>

\* self.run_executable(cmd[0], cmd[1:], ...) returns
RunCommand ==
    /\ ci_pc = "run"
    /\ ci_exec' = Append(ci_exec, ci_list[Len(ci_exec) + 1].id)
    /\ ci_pc' = IF Len(ci_exec) + 1 = Len(ci_list) THEN "done" ELSE "run"
    /\ UNCHANGED <<ci_in, ci_list>>
    /\ UNCHANGED <<lifecycleVars, matrixVars, matchVars>>

\* self.run_executable raises: the command was started and did not succeed
RunCommandFails ==
    /\ ci_pc = "run"
    /\ ci_exec' = Append(ci_exec, ci_list[Len(ci_exec) + 1].id)
    /\ ci_pc' = "failed"
    /\ UNCHANGED <<ci_in, ci_list>>
    /\ UNCHANGED <<lifecycleVars, matrixVars, matchVars>>

\* command templates: one without placeholders, and ones that use {project},
\* {wheel_file}, {build_dir} and {build_cache_dir}, {nosuch}
Templates ==
    {[id |-> "plain", uses |-> {}],
     [id |-> "project", uses |-> {"project"}],
     [id |-> "wheel", uses |-> {"wheel_file"}],
     [id |-> "dirs", uses |-> {"build_dir", "build_cache_dir"}],
     [id |-> "nosuch", uses |-> {"nosuch"}]}

\* the command lists, and two commands given as a string
CommandLists ==
    LET Template(id) == CHOOSE t \in Templates : t.id = id
    IN  {[list |-> TRUE, items |-> <<>>],
         [list |-> TRUE, items |-> <<Template("plain")>>],
         [list |-> TRUE, items |-> <<Template("plain"), Template("wheel")>>],
         [list |-> TRUE, items |-> <<Template("plain"), Template("nosuch")>>],
         [list |-> TRUE, items |-> <<Template("project"), Template("dirs"),
                                     Template("wheel")>>],
         [list |-> TRUE, items |-> <<Template("dirs"), Template("plain")>>],
         [list |-> FALSE, items |-> <<Template("wheel")>>],
         [list |-> FALSE, items |-> <<Template("project")>>]}

\* the variables of the environment at the uninstall, build and install
\* commands, and after a no-op install
CommandEnvs ==
    {[ASV_COMMIT |-> "R1", ASV_BUILD_DIR |-> None, ASV_BUILD_CACHE_DIR |-> None],
     [ASV_COMMIT |-> "R1", ASV_BUILD_DIR |-> "project", ASV_BUILD_CACHE_DIR |-> None],
     [ASV_COMMIT |-> "R1", ASV_BUILD_DIR |-> "project", ASV_BUILD_CACHE_DIR |-> "R1"]}

\* the wheels in the build cache directory
WheelCounts == 0..2

\* no command list is at hand
CommandIdle ==
    /\ ci_in = [commands |-> [list |-> TRUE, items |-> <<>>],
                env |-> [ASV_COMMIT |-> None, ASV_BUILD_DIR |-> None,
                         ASV_BUILD_CACHE_DIR |-> None],
                isdir |-> FALSE, wheels |-> 0]
    /\ ci_pc = "idle"
    /\ ci_list = <<>>
    /\ ci_exec = <<>>

(***************************************************************************)
(* Specifications.                                                         *)
(***************************************************************************)

\* the environments exist on disk and their objects are set up
CreatedInit ==
    /\ env_dir_exists = TRUE
    /\ path_exists = [p \in Paths |-> TRUE]
    /\ info = [p \in Paths |->
                  [exists |-> TRUE,
                   content |-> Descriptor(CHOOSE e \in Envs : PathOf(e) = p)]]
    /\ is_setup = [o \in Objs |-> TRUE]
    /\ cpc = [o \in Objs |-> "idle"]
    /\ ccalls = [o \in Objs |-> 0]
    /\ cres = [o \in Objs |-> "none"]
    /\ cran = [o \in Objs |-> NoCreateWork]
    /\ cprev = [o \in Objs |-> NoCreate]

\* no cache operation made, no triple drawn
IdleInit ==
    /\ life = [r \in Revs |-> "never"]
    /\ fresh = [r \in Revs |-> FALSE]
    /\ was_valid = [r \in Revs |-> FALSE]
    /\ id_a = <<>> /\ id_b = <<>> /\ made = <<>>

Init == InstallInit /\ CreatedInit /\ IdleInit /\ MatrixIdle /\ MatchIdle /\ CommandIdle

\* The life of one environment: its objects are constructed, from one
\* configuration or another, and install_project is called on them.
Next ==
    \/ \E c \in Confs : Construct("E1", c)
    \/ \E commit_hash \in Revs : InstallProject("E1", commit_hash)
    \/ CheckoutFails("E1")
    \/ CheckoutReturns("E1")
    \/ UninstallFails("E1")
    \/ UninstallReturns("E1")
    \/ BuildFails("E1")
    \/ BuildReturns("E1")
    \/ InstallFails("E1")
    \/ InstallReturns("E1")

Spec == Init /\ [][Next]_vars

\* Two environments under one root, each asked once, by a scheduler that may
\* run them concurrently, to install a revision.
MaxPairCalls == 1

NextPair ==
    \E e \in Envs :
        \/ \E commit_hash \in Revs :
               ncalls[e] < MaxPairCalls /\ InstallProject(e, commit_hash)
        \/ CheckoutFails(e)
        \/ CheckoutReturns(e)
        \/ UninstallFails(e)
        \/ UninstallReturns(e)
        \/ BuildFails(e)
        \/ BuildReturns(e)
        \/ InstallFails(e)
        \/ InstallReturns(e)

SpecPair == Init /\ [][NextPair]_vars

\* Two Environment objects of one identity on which create is called, by a
\* scheduler that may run them concurrently, over what an earlier run left
\* on disk.
InitCreate ==
    /\ InstallInit
    /\ CreateInit
    /\ ~path_exists[PathOf("E2")]
    /\ IdleInit
    /\ MatrixIdle /\ MatchIdle /\ CommandIdle

NextCreate ==
    \E o \in {"E1", "E1b"} :
        \/ \E probe_ok \in BOOLEAN : Create(o, probe_ok)
        \/ CreateRemoves(o)
        \/ CreateTestsRoot(o)
        \/ CreateMakedirs(o)
        \/ SetupReturns(o)
        \/ \E partial \in BOOLEAN : SetupRaises(o, partial)
        \/ SaveInfo(o)
        \/ SaveInfoRaises(o)

SpecCreate == InitCreate /\ [][NextCreate]_vars

\* Two environments of different paths under one environment root that does
\* not exist yet, on which create is called by a scheduler that may run them
\* concurrently.  (save_info_file finds its directory in every state of this
\* specification: SaveInfoRaises is never enabled in it.)
InitCreateRace ==
    /\ InstallInit /\ cache_size = 1
    /\ CreateInit
    /\ ~env_dir_exists
    /\ IdleInit
    /\ MatrixIdle /\ MatchIdle /\ CommandIdle

NextCreateRace ==
    \E o \in Envs :
        \/ \E probe_ok \in BOOLEAN : Create(o, probe_ok)
        \/ CreateRemoves(o)
        \/ CreateTestsRoot(o)
        \/ CreateMakedirs(o)
        \/ SetupReturns(o)
        \/ \E partial \in BOOLEAN : SetupRaises(o, partial)
        \/ SaveInfo(o)

SpecCreateRace == InitCreateRace /\ [][NextCreateRace]_vars

(***************************************************************************)
(* The operations of one build cache, in any order.                        *)
(***************************************************************************)

TheRoot == CacheRoot("E1")

CacheCreate(r) ==
    /\ cache' = [cache EXCEPT ![TheRoot] = create_cache_dir(@, r, cache_size)]
    /\ life' = [life EXCEPT ![r] = "created"]
    /\ fresh' = [x \in Revs |-> FALSE]
    /\ UNCHANGED <<was_valid, status, cache_size, installVars, createVars, identityVars, expansionVars>>

\* the build commands write into the directory of a building entry
CacheFill(r, c) ==
    /\ CacheState(cache[TheRoot], r) = "building"
    /\ cache' = [cache EXCEPT ![TheRoot].art[r] = _get_install_checksum(c)]
    /\ life' = [life EXCEPT ![r] = "filled"]
    /\ UNCHANGED <<fresh, was_valid, status, cache_size, installVars, createVars,
                   identityVars, expansionVars>>

CacheFinalize(r) ==
    /\ cache' = [cache EXCEPT ![TheRoot] = finalize_cache_dir(@, r)]
    /\ IF life[r] \in {"created", "filled"}
       THEN /\ life' = [life EXCEPT ![r] = "finalized"]
            /\ fresh' = [fresh EXCEPT ![r] = TRUE]
            /\ was_valid' = [was_valid EXCEPT ![r] = TRUE]
       ELSE UNCHANGED <<life, fresh, was_valid>>
    /\ UNCHANGED <<status, cache_size, installVars, createVars, identityVars, expansionVars>>

NextCache ==
    \E r \in Revs :
        \/ CacheCreate(r)
        \/ \E c \in Confs : CacheFill(r, c)
        \/ CacheFinalize(r)

SpecCache == Init /\ [][NextCache]_vars

(***************************************************************************)
(* Two environments made under one environment root.                       *)
(***************************************************************************)

Tools == {<<>>, <<118>>}

Pythons == {<<51>>}

\* the (key, val) items "a": "", "a": "b", "ab": "", "ab": "b"
Items == {<<<<97>>, <<>>>>, <<<<97>>, <<98>>>>, <<<<97, 98>>, <<>>>>,
          <<<<97, 98>>, <<98>>>>}

\* dicts of up to two requirements, in either iteration order
Requirements ==
    {<<>>} \cup {<<i>> : i \in Items}
           \cup {x \in Items \X Items : x[1][1] # x[2][1]}

Triples == [tool_name : Tools, python : Pythons, requirements : Requirements]

InitIdentity ==
    /\ InstallInit /\ CreatedInit
    /\ life = [r \in Revs |-> "never"]
    /\ fresh = [r \in Revs |-> FALSE]
    /\ was_valid = [r \in Revs |-> FALSE]
    /\ id_a \in Triples
    /\ id_b \in Triples
    /\ made = <<>>
    /\ MatrixIdle /\ MatchIdle /\ CommandIdle

\* what Environment.__init__ derives from the identity of the environment
Derived(t) ==
    LET n == get_env_name(t.tool_name, t.python, t.requirements)
    IN  [name |-> n, hashname |-> hashname(n), path |-> EnvPath(conf_env_dir, n)]

\* the two environments are constructed
MakeEnvironments ==
    /\ made = <<>>
    /\ made' = <<Derived(id_a), Derived(id_b)>>
    /\ UNCHANGED <<id_a, id_b, installVars, storeVars, createVars, cacheOpVars,
                   expansionVars>>

NextIdentity == MakeEnvironments

SpecIdentity == InitIdentity /\ [][NextIdentity]_vars

(***************************************************************************)
(* One call of iter_requirement_matrix, consumed to its end.               *)
(***************************************************************************)

InitMatrix ==
    /\ InstallInit /\ cache_size = 1
    /\ CreatedInit
    /\ IdleInit
    /\ MatchIdle /\ CommandIdle
    /\ m_in \in Inputs
    /\ m_pc = "matrix"
    /\ m_py = 1 /\ m_comb = 1 /\ m_inc = 1
    /\ env_classes = EmptyDict
    /\ empty_matrix = TRUE
    /\ lookups = <<>>
    /\ out = <<>>

NextMatrix ==
    \/ MatrixLookupFails
    \/ MatrixExcluded
    \/ MatrixYields
    \/ EndOfPython
    \/ IncludeRaises
    \/ IncludeLookupFails
    \/ IncludeSkipped
    \/ IncludeYields

SpecMatrix == InitMatrix /\ [][NextMatrix]_vars

(***************************************************************************)
(* match_rule applied to a target and a rule.                              *)
(***************************************************************************)

\* the values "a", "ab", "b" and the patterns "a", "ab", "b", "a|ab", "ab|a"
TargetValues == {NoneVal, Val(<<97>>), Val(<<97, 98>>), Val(<<98>>)}

RuleValues == {NoneVal, Val(<<97>>), Val(<<97, 98>>), Val(<<98>>),
               Val(<<97, 124, 97, 98>>), Val(<<97, 98, 124, 97>>)}

DictsOver(keys, values) == UNION {[K -> values] : K \in SUBSET keys}

MatchTargets == DictsOver({"k", "j"}, TargetValues)

MatchRules == DictsOver({"k", "j"}, RuleValues)

InitMatch ==
    /\ InstallInit /\ cache_size = 1
    /\ CreatedInit
    /\ IdleInit
    /\ MatrixIdle /\ CommandIdle
    /\ mr_target \in MatchTargets
    /\ mr_rule \in MatchRules
    /\ mr_result = "none"

NextMatch == MatchRule

SpecMatch == InitMatch /\ [][NextMatch]_vars

(***************************************************************************)
(* One call of _interpolate_and_run_commands.                              *)
(***************************************************************************)

InitCommands ==
    /\ InstallInit /\ cache_size = 1
    /\ CreatedInit
    /\ IdleInit
    /\ MatrixIdle /\ MatchIdle
    /\ ci_in \in [commands : CommandLists, env : CommandEnvs, isdir : BOOLEAN,
                  wheels : WheelCounts]
    /\ ci_in.isdir \/ ci_in.wheels = 0
    /\ ci_pc = "interpolate"
    /\ ci_list = <<>>
    /\ ci_exec = <<>>

NextCommands ==
    \/ InterpolateCommands
    \/ RunCommand
    \/ RunCommandFails

SpecCommands == InitCommands /\ [][NextCommands]_vars

(***************************************************************************)
(* Properties of the install lifecycle.                                    *)
(***************************************************************************)

Succeeded == {"ok", "noop"}

CommandErrors == {"uninstall_error", "build_error", "install_error"}

\* C1: install_project(rev) called twice in a row on one Environment object:
\* when the first call returned without error, the second is over at once as
\* a no-op that ran no checkout and no command and wrote neither the status
\* nor the cache; when the first call did the work, it ran the checkout, the
\* uninstall commands and the install commands once each, and the build
\* commands once if it allocated the cache entry (not at all if it found the
\* entry valid), so that is all the two calls ran.
C1_InstallIdempotent ==
    \A e \in Envs :
        (prev[e].res \in Succeeded /\ prev[e].arg = arg[e]) =>
            /\ pc[e] = "idle"
            /\ res[e] = "noop"
            /\ ran[e] = NoWork
            /\ prev[e].res = "ok" =>
                   /\ prev[e].ran.checkout + ran[e].checkout = 1
                   /\ prev[e].ran.uninstall + ran[e].uninstall = 1
                   /\ prev[e].ran.install + ran[e].install = 1
                   /\ prev[e].ran.build + ran[e].build =
                          (IF prev[e].ran.cache_writes = 2 THEN 1 ELSE 0)

\* C1, as claimed: of two install_project(rev) calls in a row that returned
\* without error, the first of which found rev not installed, checkout,
\* uninstall, build and install ran exactly once each in total.
C1_ExactlyOnceEach ==
    \A e \in Envs :
        (prev[e].res = "ok" /\ prev[e].arg = arg[e] /\ res[e] \in Succeeded) =>
            /\ prev[e].ran.checkout + ran[e].checkout = 1
            /\ prev[e].ran.uninstall + ran[e].uninstall = 1
            /\ prev[e].ran.build + ran[e].build = 1
            /\ prev[e].ran.install + ran[e].install = 1

C1_Witness ==
    \E e \in Envs :
        /\ prev[e].res = "ok" /\ prev[e].arg = arg[e] /\ prev[e].ran.build = 1
        /\ res[e] = "noop"

\* the persisted checksum differs from the computed one
ChecksumMismatch(e) ==
    /\ status[PathOf(e)].exists
    /\ status[PathOf(e)].install_checksum # _get_install_checksum(conf[e])

\* C2: whenever the persisted checksum differs from the checksum of the
\* current configuration the environment reports no installed revision, and
\* an install_project call for the recorded revision made in such a state
\* goes on to the checkout instead of returning as a no-op.
C2_ChecksumInvalidation ==
    /\ [](\A e \in Envs : ChecksumMismatch(e) => installed_commit_hash(e) = None)
    /\ [][\A e \in Envs :
              (/\ ChecksumMismatch(e)
               /\ ncalls'[e] = ncalls[e] + 1
               /\ arg'[e] = status[PathOf(e)].commit_hash)
              => (pc'[e] = "checkout" /\ res'[e] = "running")]_vars

C2_Witness ==
    \E e \in Envs :
        /\ pc[e] = "checkout"
        /\ ChecksumMismatch(e)
        /\ status[PathOf(e)].commit_hash = arg[e]

\* C3: while install_project is at its uninstall, build or install commands
\* the persisted status names no revision, and the status comes to name a
\* revision only in the step in which the install commands for that revision
\* have returned without error.
C3_InvalidateBeforeRisk ==
    /\ [](\A e \in Envs :
              pc[e] \in {"uninstall", "build", "install"} =>
                  /\ status[PathOf(e)].exists
                  /\ status[PathOf(e)].commit_hash = None)
    /\ [][\A p \in Paths :
              (status'[p] # status[p] /\ status'[p].commit_hash # None) =>
                  \E e \in Envs :
                      /\ PathOf(e) = p
                      /\ pc[e] = "install" /\ pc'[e] = "idle" /\ res'[e] = "ok"
                      /\ status'[p].commit_hash = arg[e]]_vars

C3_Witness ==
    \E e \in Envs :
        /\ pc[e] = "install"
        /\ prev[e].res = "ok"
        /\ status[PathOf(e)].commit_hash = None

\* C4: after install_project has ended with an error of an uninstall, build
\* or install command the environment reports no installed revision, and a
\* following install_project for the same revision is no no-op: it runs the
\* checkout again and, unless the checkout raises, the uninstall commands.
C4_FailureLeavesUninstalled ==
    \A e \in Envs :
        /\ res[e] \in CommandErrors => installed_commit_hash(e) = None
        /\ (prev[e].res \in CommandErrors /\ prev[e].arg = arg[e]) =>
               /\ res[e] # "noop"
               /\ pc[e] # "checkout" => ran[e].checkout = 1
               /\ (pc[e] \notin {"checkout", "uninstall"} /\ res[e] # "checkout_error")
                      => ran[e].uninstall = 1

C4_Witness ==
    \E e \in Envs :
        /\ prev[e].res = "install_error" /\ prev[e].arg = arg[e]
        /\ prev[e].ran.build = 1
        /\ res[e] = "ok"

\* each of the two environments has made one install_project call, for R1,
\* and it returned without error
BothInstalledR1 ==
    \A e \in Envs : ncalls[e] = 1 /\ arg[e] = "R1" /\ res[e] = "ok"

C7_NoStaleArtifact ==
    \A e \in Envs :
        pc[e] = "install" =>
            cache[CacheRoot(e)].art[arg[e]] = _get_install_checksum(conf[e])

(***************************************************************************)
(* Properties of the build cache.                                          *)
(***************************************************************************)

C8_CreateIdempotent ==
    /\ [](\A o \in Objs : is_setup[o] => cpc[o] = "idle")
    /\ [][\A o \in Objs :
              is_setup[o] =>
                  /\ is_setup'[o]
                  /\ ccalls'[o] = ccalls[o] => cran'[o] = cran[o]
                  /\ ccalls'[o] # ccalls[o] =>
                         /\ cres'[o] = "noop"
                         /\ cran'[o] = NoCreateWork
                         /\ cpc'[o] = "idle"
                         /\ UNCHANGED <<env_dir_exists, path_exists, info,
                                        status, cache>>]_vars

C8_Witness ==
    \E o \in Objs :
        /\ is_setup[o] /\ cprev[o].res = "ok" /\ cres[o] = "noop"
        /\ ~path_exists[PathOf(o)]

\* C9: in the step in which create ends with the error of the setup (which
\* it runs when the presence check has failed), the directory of the
\* environment does not exist, no info file is there and the object is not
\* set up; the create call after it is no no-op: it checks the presence
\* again and, unless the environment is now found present, runs the setup
\* again.
C9_SetupFailureCleanup ==
    /\ [][\A o \in Objs :
              (cres[o] # "setup_error" /\ cres'[o] = "setup_error") =>
                  /\ cpc[o] = "setup" /\ cran[o].found = 0
                  /\ cpc'[o] = "idle"
                  /\ ~path_exists'[PathOf(o)]
                  /\ ~info'[PathOf(o)].exists
                  /\ ~is_setup'[o]]_vars
    /\ [](\A o \in Objs :
              cprev[o].res = "setup_error" =>
                  /\ cres[o] # "noop"
                  /\ cran[o].check = 1
                  /\ (cpc[o] = "idle" /\ cran[o].found = 0) => cran[o].setup = 1)

C9_Witness ==
    \E o \in Objs :
        /\ cprev[o].res = "setup_error" /\ cprev[o].ran.rmtree = 2
        /\ cres[o] = "ok" /\ cran[o].setup = 1

(***************************************************************************)
(* Properties of the identity.                                             *)
(***************************************************************************)

\* the triples are equal (requirements are dicts: equal when their items are)
SameTriple(a, b) ==
    /\ a.tool_name = b.tool_name
    /\ a.python = b.python
    /\ Range(a.requirements) = Range(b.requirements)

\* C10: two environments under one root whose triples differ have different
\* names, different hashes and different paths.
C10_PathDisjoint ==
    (made # <<>> /\ ~SameTriple(id_a, id_b)) =>
        /\ made[1].name # made[2].name
        /\ made[1].hashname # made[2].hashname
        /\ made[1].path # made[2].path

\* C11: two environments whose triples are equal have the same name and the
\* same hash, also when their requirement dicts list the same items in a
\* different iteration order.
C11_IdentityDeterminism ==
    (made # <<>> /\ SameTriple(id_a, id_b)) =>
        /\ made[1].name = made[2].name
        /\ made[1].hashname = made[2].hashname

\* two environments made from the same two requirements in opposite orders
C11_Witness ==
    /\ made # <<>>
    /\ SameTriple(id_a, id_b)
    /\ Len(id_a.requirements) = 2
    /\ id_a.requirements # id_b.requirements
    /\ made[1].hashname = made[2].hashname

(***************************************************************************)
(* Properties of the expansion of the requirement matrix.                  *)
(***************************************************************************)

\* the combinations of python i are through
MatrixThrough(i) ==
    \/ i < m_py
    \/ m_pc \in {"include", "done", "raised"}
    \/ (i = m_py /\ m_pc = "fallback")

\* python i is through, its bare set included
PythonThrough(i) == i < m_py \/ m_pc \in {"include", "done", "raised"}

\* how often a statement has yielded for python i and combination n
Yielded(origin, i, n) ==
    Cardinality({x \in 1..Len(out) :
                    out[x].origin = origin /\ out[x].py = i /\ out[x].n = n})

\* the environment kind of python i is given, or its lookup succeeds
Resolvable(i) == ~NeedsLookup \/ m_in.pythons[i] \notin m_in.unavailable

\* the environment kind of python i: the one given or found, "" if none is
KindOf(i) ==
    IF ~NeedsLookup THEN m_in.environment_type
    ELSE IF m_in.pythons[i] \in m_in.unavailable THEN Se
    ELSE found_tool_name

\* some exclude rule matches combination n of python i
RuleExcludes(i, n) ==
    \E r \in Range(m_in.exclude) : match_rule(CombinationTarget(i, n, KindOf(i)), r)

\* exactly the combinations of python i that no rule excludes were yielded,
\* once each, as the requirement set of their items
MatrixIsProduct(i) ==
    \A n \in 1..Len(Combinations(i)) :
        /\ Yielded("matrix", i, n) = IF RuleExcludes(i, n) THEN 0 ELSE 1
        /\ \A x \in 1..Len(out) :
               (out[x].origin = "matrix" /\ out[x].py = i /\ out[x].n = n) =>
                   out[x].set = Pruned(ZipDict(all_keys(m_in.matrix), Combinations(i)[n]))

\* axes A = [1, 2], B = [], the exclude rule {A: "1"}, one python
IsExample ==
    /\ m_in.matrix = D2("A", ListAxis(<<S1, S2>>), "B", ListAxis(<<>>))
    /\ m_in.exclude = <<D1("A", S1)>>
    /\ m_in.pythons = <<S3>>

\* the one set python = 3, A = 2, B = ""
ExampleSet == [k \in {"python", "A", "B"} |->
                  IF k = "python" THEN S3 ELSE IF k = "A" THEN S2 ELSE Se]

ExampleYieldsOne ==
    (IsExample /\ MatrixThrough(1)) =>
        /\ Cardinality({x \in 1..Len(out) : out[x].origin = "matrix"}) = 1
        /\ \E x \in 1..Len(out) : out[x].origin = "matrix" /\ out[x].set = ExampleSet

\* C12, as claimed: for each python, the matrix yields one requirement set
\* for every combination of the product of the axes that no exclude rule
\* matches, and none for a combination that some rule matches.
C12_MatrixIsProduct ==
    /\ \A i \in 1..Len(m_in.pythons) : MatrixThrough(i) => MatrixIsProduct(i)
    /\ ExampleYieldsOne

\* C12: for each python whose environment kind is given or found by the
\* lookup, the matrix yields one requirement set for every combination of the
\* product of the axes (an empty axis counting as the one value "") that no
\* exclude rule matches, and none for a combination that some rule matches;
\* the axes A = [1, 2], B = [] with the rule {A: "1"} yield the one set A = 2,
\* B = "".
C12_MatrixIsProductOfResolved ==
    /\ \A i \in 1..Len(m_in.pythons) :
           (MatrixThrough(i) /\ Resolvable(i)) => MatrixIsProduct(i)
    /\ ExampleYieldsOne

\* the example has been expanded to its end, the kind of the python looked up
C12_Witness ==
    /\ m_pc = "done"
    /\ IsExample
    /\ NeedsLookup
    /\ \E x \in 1..Len(out) : out[x].origin = "matrix" /\ out[x].set = ExampleSet

\* C13: with explicit_selection, a python all of whose combinations are
\* excluded gets exactly one bare set of that python alone; without
\* explicit_selection no bare set is yielded; and none is yielded for a
\* python one of whose combinations was accepted.
C13_BareFallback ==
    \A i \in 1..Len(m_in.pythons) :
        PythonThrough(i) =>
            /\ (m_in.explicit_selection
                    /\ \A n \in 1..Len(Combinations(i)) : RuleExcludes(i, n)) =>
                   /\ Yielded("bare", i, 0) = 1
                   /\ \A x \in 1..Len(out) :
                          (out[x].origin = "bare" /\ out[x].py = i) =>
                              out[x].set = D1("python", m_in.pythons[i])
            /\ ~m_in.explicit_selection => Yielded("bare", i, 0) = 0
            /\ (\E n \in 1..Len(Combinations(i)) : Yielded("matrix", i, n) > 0) =>
                   Yielded("bare", i, 0) = 0

\* an explicit selection whose every combination a rule excluded has ended
\* with the bare set
C13_Witness ==
    /\ m_pc = "done"
    /\ m_in.explicit_selection
    /\ m_in.exclude = <<EmptyDict>>
    /\ Len(Combinations(1)) > 1
    /\ \A n \in 1..Len(Combinations(1)) : RuleExcludes(1, n)
    /\ Yielded("bare", 1, 0) = 1

\* the include entry names a python version
NamesVersion(include) == "python" \in DOMAIN include /\ ~include["python"].none

\* the loop over conf.include has gone past entry k
IncludePassed(k) ==
    /\ ~m_in.explicit_selection
    /\ \/ (m_pc = "include" /\ k < m_inc)
       \/ (m_pc = "raised" /\ k < m_inc)
       \/ m_pc = "done"

\* C14: with explicit_selection no include entry is yielded and none raises;
\* without it every include entry reached names a python version or the
\* expansion raises at that entry: no entry that names none is yielded or
\* passed over.
C14_IncludeGating ==
    /\ m_in.explicit_selection =>
           /\ m_pc # "raised"
           /\ \A x \in 1..Len(out) : out[x].origin # "include"
    /\ \A x \in 1..Len(out) :
           out[x].origin = "include" => NamesVersion(m_in.include[out[x].n])
    /\ \A k \in 1..Len(m_in.include) :
           IncludePassed(k) => NamesVersion(m_in.include[k])
    /\ m_pc = "raised" => ~NamesVersion(CurInclude)

\* sets yielded for python value p: by the matrix, as bare set, or by an
\* include that names p
YieldedFor(p) ==
    {x \in 1..Len(out) :
        \/ out[x].origin \in {"matrix", "bare"} /\ m_in.pythons[out[x].py] = p
        \/ /\ out[x].origin = "include"
           /\ "python" \in DOMAIN m_in.include[out[x].n]
           /\ m_in.include[out[x].n]["python"] = p}

\* C19: when the kind is looked up and the lookup fails for a python, the
\* expansion does not end there, nothing is yielded for that python, and the
\* combinations of the other pythons are yielded as they are without it.
C19_LookupFailureSkipsVersion ==
    NeedsLookup =>
        /\ m_pc = "raised" => "python" \notin DOMAIN CurInclude
        /\ \A i \in 1..Len(m_in.pythons) :
               m_in.pythons[i] \in m_in.unavailable => YieldedFor(m_in.pythons[i]) = {}
        /\ \A i \in 1..Len(m_in.pythons) :
               (MatrixThrough(i) /\ m_in.pythons[i] \notin m_in.unavailable) =>
                   MatrixIsProduct(i)

\* C20: get_environment_class is called at most once for each python in one
\* expansion, whether it returns or raises.
C20_LookupMemoized ==
    \A p \in Range(lookups) :
        Cardinality({x \in 1..Len(lookups) : lookups[x] = p}) <= 1

(***************************************************************************)
(* Properties of rule matching.                                            *)
(***************************************************************************)

\* the regular expression p matches the whole of w
FullMatch(p, w) == \E i \in 1..Len(Alternatives(p)) : Alternatives(p)[i] = w

\* C15: match_rule is true iff every key of the rule matches: a null value
\* matches iff the key is absent from the target or null there; a pattern
\* matches iff the key is in the target with a non-null value that the
\* pattern matches in its entirety; the empty rule matches every target.
C15_RuleMatching ==
    mr_result \in {"True", "False"} =>
        /\ (mr_result = "True") <=>
               \A key \in DOMAIN mr_rule :
                   IF mr_rule[key].none
                   THEN key \notin DOMAIN mr_target \/ mr_target[key].none
                   ELSE /\ key \in DOMAIN mr_target
                        /\ ~mr_target[key].none
                        /\ FullMatch(mr_rule[key].s, mr_target[key].s)
        /\ DOMAIN mr_rule = {} => mr_result = "True"

(***************************************************************************)
(* Properties of concurrent create calls.                                  *)
(***************************************************************************)

\* object o takes the step
Steps(o) == ccalls'[o] # ccalls[o] \/ cpc'[o] # cpc[o] \/ cran'[o] # cran[o]

\* C16: when create runs concurrently on two environments of different paths
\* under a root that did not exist, a call that finds the root made by the
\* other goes on to its setup and does not fail; a call changes nothing under
\* the path of the other; a call fails only if its own setup raised; and an
\* environment that is set up has its directory and its own descriptor.
C16_ConcurrentCreateSafe ==
    /\ [](\A o \in Envs :
            /\ cres[o] \in {"none", "running", "ok", "noop", "setup_error"}
            /\ cpc[o] = "save" => path_exists[PathOf(o)]
            /\ (is_setup[o] \/ cres[o] = "ok") =>
                   /\ is_setup[o]
                   /\ env_dir_exists
                   /\ path_exists[PathOf(o)]
                   /\ info[PathOf(o)] = [exists |-> TRUE, content |-> Descriptor(o)])
    /\ [][\A o \in Envs :
            /\ (cpc[o] = "makedirs" /\ env_dir_exists /\ Steps(o)) =>
                   cpc'[o] = "setup" /\ cres'[o] = "running"
            /\ Steps(o) =>
                   \A p \in Paths \ {PathOf(o)} :
                       /\ path_exists'[p] = path_exists[p]
                       /\ info'[p] = info[p]
                       /\ status'[p] = status[p]]_vars

\* both environments are set up by their first create, and one of them lost
\* the race to make the root
C16_Witness ==
    /\ is_setup["E1"] /\ is_setup["E2"]
    /\ ccalls["E1"] = 1 /\ ccalls["E2"] = 1
    /\ cran["E1"].raced + cran["E2"].raced = 1
    /\ cran["E1"].makedirs + cran["E2"].makedirs = 1

(***************************************************************************)
(* Properties of the command variables and of the order of finalize and    *)
(* install.                                                                *)
(***************************************************************************)

\* C17: ASV_BUILD_DIR is absent from the variables of an environment whenever
\* no install_project is in progress on it, and ASV_BUILD_CACHE_DIR is absent
\* whenever neither its build commands nor its install commands are running.
C17_BuildVarsScoped ==
    \A e \in Envs :
        /\ pc[e] = "idle" => env_vars[e].ASV_BUILD_DIR = None
        /\ pc[e] \notin {"build", "install"} => env_vars[e].ASV_BUILD_CACHE_DIR = None

\* the current install_project of e has run the build commands
Built(e) == ran[e].build > 0

\* the call before the current one ran the build commands to their end and
\* failed in its install commands, for the same revision
RetryAfterInstallFailure(e) ==
    /\ prev[e].res = "install_error"
    /\ prev[e].ran.build > 0
    /\ prev[e].arg = arg[e]
    /\ res[e] # "noop"
    /\ pc[e] = "install" \/ res[e] \in {"ok", "install_error"}

\* C18, as claimed: the entry is finalized before the install commands run,
\* so that after a build that succeeded and install commands that failed
\* get_cache_dir returns the built directory and a retry does not rebuild.
C18_FinalizeBeforeInstall ==
    \A e \in Envs :
        /\ (pc[e] = "install" /\ Built(e)) =>
               get_cache_dir(cache[CacheRoot(e)], arg[e]) = arg[e]
        /\ (res[e] = "install_error" /\ Built(e)) =>
               get_cache_dir(cache[CacheRoot(e)], arg[e]) = arg[e]
        /\ RetryAfterInstallFailure(e) => ~Built(e)

\* C18: the entry is allocated and built before the install commands run and
\* finalized only after they have succeeded: while they run and after they
\* have failed get_cache_dir returns None for the revision just built, and a
\* retry allocates and builds again.
C18_FinalizeAfterInstall ==
    \A e \in Envs :
        /\ (pc[e] = "install" /\ Built(e)) =>
               get_cache_dir(cache[CacheRoot(e)], arg[e]) = None
        /\ (res[e] = "install_error" /\ Built(e)) =>
               get_cache_dir(cache[CacheRoot(e)], arg[e]) = None
        /\ RetryAfterInstallFailure(e) => Built(e)
        /\ (res[e] = "ok" /\ Built(e)) =>
               get_cache_dir(cache[CacheRoot(e)], arg[e]) = arg[e]

\* a retry, after install commands that failed, has built again and succeeded
C18_Witness ==
    /\ RetryAfterInstallFailure("E1")
    /\ res["E1"] = "ok"
    /\ ran["E1"].build = 1
    /\ get_cache_dir(cache[CacheRoot("E1")], arg["E1"]) = arg["E1"]

(***************************************************************************)
(* Properties of command interpolation.                                    *)
(***************************************************************************)

\* a command of the list at hand uses a placeholder that cannot be resolved:
\* one that is no interpolation variable, or {wheel_file} when the build
\* cache directory does not hold exactly one wheel
Unresolved ==
    \E i \in 1..Len(ci_in.commands.items) :
        LET uses == ci_in.commands.items[i].uses
        IN  \/ ~(uses \subseteq InterpolationVars(ci_in))
            \/ "wheel_file" \in uses /\ ci_in.wheels # 1

\* C21: when a command of a command list uses a placeholder that cannot be
\* resolved ({wheel_file} with no wheel or with more than one in the build
\* cache directory included), the interpolation raises and no command of the
\* list is run, the ones before the offending command included.
C21_InterpolationFailsFast ==
    Unresolved => /\ ci_exec = <<>>
                  /\ ci_pc \in {"interpolate", "raised"}
                  /\ ci_list = <<>>

\* a list whose first command can be interpolated and whose second uses
\* {wheel_file}, with two wheels in the build cache directory, has raised
C21_Witness ==
    /\ ci_pc = "raised"
    /\ Len(ci_in.commands.items) = 2
    /\ ci_in.commands.items[1].uses = {}
    /\ ci_in.commands.items[2].uses = {"wheel_file"}
    /\ ci_in.env.ASV_BUILD_CACHE_DIR # None
    /\ ci_in.isdir
    /\ ci_in.wheels = 2
    /\ ci_exec = <<>>

(***************************************************************************)
(* Properties of install_project from its first step to its last.          *)
(***************************************************************************)

\* C22: after install_project(rev) has returned without error, as a no-op or
\* after the full sequence, the persisted status is rev with the checksum of
\* the current configuration, the environment reports rev as installed, and
\* ASV_COMMIT is rev.
C22_SuccessfulInstallPostState ==
    \A e \in Envs :
        (pc[e] = "idle" /\ res[e] \in {"ok", "noop"}) =>
            /\ arg[e] \in Revs
            /\ status[PathOf(e)] = [exists |-> TRUE, commit_hash |-> arg[e],
                                    install_checksum |-> _get_install_checksum(conf[e])]
            /\ installed_commit_hash(e) = arg[e]
            /\ env_vars[e].ASV_COMMIT = arg[e]

\* a full install of one revision has returned after one of another revision
C22_Witness ==
    \E e \in Envs :
        /\ pc[e] = "idle" /\ res[e] = "ok"
        /\ prev[e].res = "ok" /\ prev[e].arg # arg[e]
        /\ env_vars[e].ASV_COMMIT = arg[e]
        /\ status[PathOf(e)].commit_hash = arg[e]

\* finalize_cache_dir(arg[e]) is called in this step
Finalizes(e) == pc[e] = "install" /\ pc'[e] = "idle" /\ res'[e] = "ok"

\* the current install_project of e created the entry of its revision and
\* its build commands, if it has any, ran to their end
BuiltInThisCall(e) ==
    /\ CacheState(cache[CacheRoot(e)], arg[e]) = "building"
    /\ ran[e].cache_writes = 1
    /\ BuildCmds(conf[e]) # <<>> => ran[e].build = 1

\* C23: finalize_cache_dir(rev) is called only in an install_project call
\* that found the entry of rev valid or that created it and ran its build
\* commands to their end, and then its install commands; an entry becomes
\* valid in no other step; and after a build that failed get_cache_dir
\* returns None for its revision.
C23_OnlySuccessfulBuildsValid ==
    /\ [][\A e \in Envs :
              Finalizes(e) =>
                  \/ get_cache_dir(cache[CacheRoot(e)], arg[e]) = arg[e]
                  \/ BuiltInThisCall(e)]_vars
    /\ [][\A root \in Roots : \A r \in Revs :
              (get_cache_dir(cache'[root], r) = r /\ get_cache_dir(cache[root], r) = None) =>
                  \E e \in Envs :
                      /\ CacheRoot(e) = root /\ arg[e] = r
                      /\ Finalizes(e) /\ BuiltInThisCall(e)]_vars
    /\ [](\A e \in Envs :
              res[e] = "build_error" =>
                  /\ get_cache_dir(cache[CacheRoot(e)], arg[e]) = None
                  /\ ran[e].install = 0)

\* an install_project whose build failed is followed by one, for the same
\* revision, that built again and returned: the entry is valid
C23_Witness ==
    \E e \in Envs :
        /\ prev[e].res = "build_error" /\ prev[e].arg = arg[e]
        /\ res[e] = "ok" /\ ran[e].build = 1
        /\ get_cache_dir(cache[CacheRoot(e)], arg[e]) = arg[e]

\* C24: a checkout that fails leaves the persisted status and every cache
\* entry as they were when install_project was called, and no uninstall,
\* build or install command has run: an environment that reported a revision
\* as installed still reports it.
C24_CheckoutFailureChangesNothing ==
    /\ [][\A e \in Envs :
              \/ (pc[e] = "idle" /\ pc'[e] = "checkout")
              \/ (pc[e] = "checkout" /\ res'[e] = "checkout_error")
              => (status' = status /\ cache' = cache)]_vars
    /\ [](\A e \in Envs :
              res[e] = "checkout_error" =>
                  /\ ran[e].uninstall = 0 /\ ran[e].build = 0 /\ ran[e].install = 0
                  /\ ran[e].status_writes = 0 /\ ran[e].cache_writes = 0
                  /\ prev[e].res \in {"ok", "noop"} =>
                         installed_commit_hash(e) = prev[e].arg)

\* the checkout of another revision has failed on an environment with an
\* installed revision, which it still reports
C24_Witness ==
    \E e \in Envs :
        /\ res[e] = "checkout_error"
        /\ prev[e].res = "ok" /\ prev[e].arg # arg[e]
        /\ installed_commit_hash(e) = prev[e].arg
        /\ get_cache_dir(cache[CacheRoot(e)], prev[e].arg) = prev[e].arg

====
